---- MODULE Spec2Model ----
(***************************************************************************)
(* Model of the ingestion / retrieval / answer pipeline of OpenEducation   *)
(* (package src/app): the chunker (chunking.py), the answer synthesizer    *)
(* (llm.py, main.py:answer) and the vector store wrapper (qdrant_store.py).*)
(* Each component has its own specification over the shared variables:     *)
(*   SpecChunk  - one call of a chunking entry point, loop step by step    *)
(*   SpecAnswer - concurrent /api/answer requests and direct calls of      *)
(*                answer_from_context                                      *)
(*   SpecPack   - one call of pack_context                                 *)
(*   SpecStore  - concurrent ensure_collection / upsert_vectors /          *)
(*                search_similar calls                                     *)
(*   SpecScroll - one call of scroll_all_by_deck                           *)
(*   SpecRetrieval - one call of search of the in-memory index             *)
(*                (src/openeducation/rag/retrieval.py)                     *)
(*   SpecEmbed  - one call of an embedding backend                         *)
(*                (src/openeducation/rag/embeddings.py, app/embeddings.py) *)
(*   SpecWrapper - concurrent calls of OpenAIWrapper.complete              *)
(*                (src/openeducation/llm/openai_wrapper.py)                *)
(*   SpecUpload - one /api/upload request (main.py:upload) through         *)
(*                extraction, chunking, embedding, upsert, deck and catalog*)
(***************************************************************************)
EXTENDS Integers, Sequences, FiniteSets, TLC

VARIABLES
  \* ---- chunker (src/app/chunking.py) ----
  tiktoken,   \* TRUE iff the optional tokenizer import succeeded (lines 8-11)
  config,     \* the environment-driven chunking defaults (config.py:14-17)
  entry,      \* the public function that was called
  texts,      \* the text argument(s); one text except for chunk_with_overrides
  arg,        \* the size/overlap arguments as passed (0 stands for None / omitted)
  k,          \* chunk_with_overrides: index of the text being chunked
  fn,         \* the windowing loop that runs: "chars" or "tokens"
  chunk_size, \* effective window size of the running loop (chars or tokens)
  overlap,    \* effective overlap of the running loop
  i,          \* loop variable i (window start, in the loop's unit)
  win,        \* list `chunks` of the running chunk_text_chars / chunk_text_tokens
  chunks,     \* list `chunks` of chunk_with_overrides
  out,        \* the returned list
  cut,        \* history: every window the windowing loops of this call returned
  pc          \* position of the call: "call", "loop", "ret", "done"

chunkVars == <<tiktoken, config, entry, texts, arg, k, fn, chunk_size, overlap,
               i, win, chunks, out, cut, pc>>

VARIABLES
  \* ---- answer synthesizer (src/app/main.py answer, src/app/llm.py) ----
  OPENAI_API_KEY,          \* TRUE iff config.OPENAI_API_KEY is set (config.py:4)
  EXPOSE_ASK,              \* config.EXPOSE_ASK (config.py:21-25)
  RAG_MAX_CONTEXT_TOKENS,  \* the module global config.RAG_MAX_CONTEXT_TOKENS
  req                      \* per thread: the request it serves and its position

answerVars == <<OPENAI_API_KEY, EXPOSE_ASK, RAG_MAX_CONTEXT_TOKENS, req>>

VARIABLES
  \* ---- vector store (src/app/qdrant_store.py over a Qdrant collection) ----
  collection, \* the Qdrant collection: None while absent, else Some([dim, points])
  held,       \* history: the points the collection held initially
  uuids,      \* number of ids uuid.uuid4() has handed out
  call        \* per caller: the store call it makes and its position

storeVars == <<collection, held, uuids, call>>

VARIABLES
  \* ---- files written by the application ----
  cache,      \* data/cache/llm_responses: per request key None or Some(response)
  uploads,    \* number of files written to config.UPLOADS_DIR
  decks,      \* the deck packages build_deck has written, by deck id
  catalog,    \* the deck catalog file (catalog.py): list of entries
  up          \* the /api/upload request being served and its position

fileVars == <<cache, uploads, decks, catalog, up>>

vars == <<chunkVars, answerVars, storeVars, fileVars>>

-----------------------------------------------------------------------------
(* Bounds of the model *)

\* longest input text, in characters
MaxLen == 16

(* Program constants *)

\* chunking.py:85 and :115  `len(ch.strip()) > 10`
MinChunkLen == 10
\* chunking.py:42-43  `max_tokens * 4`
CharsPerToken == 4
\* width in characters of one token of the modelled tokenizer (the tokenizer is
\* an external library: any segmentation of the text into consecutive pieces
\* with decode(encode(t)) = t is an instance; this one has fixed-width pieces)
TokWidth == 2

-----------------------------------------------------------------------------
(* Helpers *)

Min(a, b) == IF a <= b THEN a ELSE b
Max(a, b) == IF a >= b THEN a ELSE b

\* Python `x or d` on an int-or-None argument: None and 0 are both falsy
OrDefault(x, d) == IF x # 0 THEN x ELSE d

Whitespace == {" "}

RECURSIVE LStrip(_)
LStrip(s) == IF s # <<>> /\ Head(s) \in Whitespace THEN LStrip(Tail(s)) ELSE s

RECURSIVE RStrip(_)
RStrip(s) == IF s # <<>> /\ s[Len(s)] \in Whitespace
             THEN RStrip(SubSeq(s, 1, Len(s) - 1)) ELSE s

\* str.strip()
Strip(s) == RStrip(LStrip(s))

\* hashlib.md5(...).hexdigest() used as a set key: modelled collision-free, so
\* two keys are equal iff the hashed strings are equal
Md5Key(s) == <<"md5", s>>

-----------------------------------------------------------------------------
(* Inputs *)

Patterns == <<
  <<"a">>,
  <<"a","b","c","d","e","f","g","h","i","j","k","l","m","n","o","p","q","r","s","t">>,
  <<" ">>,
  <<"a"," ">>,
  <<" "," ","a","b","c","d","e","f","g","h","i","j","k","l"," "," ">>,
  <<"a","b","c","d">> >>

\* the text of length n that repeats pattern p
MkText(p, n) == [x \in 1..n |-> Patterns[p][((x - 1) % Len(Patterns[p])) + 1]]

Texts == { MkText(p, n) : p \in 1..Len(Patterns), n \in 0..MaxLen }

\* second document of a two-document upload
SecondTexts == { MkText(2, 13) }

\* a periodic text long enough for two full windows with the same content
LongTexts == { MkText(6, 20) }

\* chunking defaults: the shipped ones (config.py:14-17) and a scaled-down
\* environment override that makes windowing happen on short texts
ConfigSet == {
  [CHUNK_SIZE_CHARS |-> 1200, CHUNK_OVERLAP_CHARS |-> 150,
   MAX_CHUNK_TOKENS |-> 700, OVERLAP_TOKENS |-> 100],
  [CHUNK_SIZE_CHARS |-> 12, CHUNK_OVERLAP_CHARS |-> 4,
   MAX_CHUNK_TOKENS |-> 3, OVERLAP_TOKENS |-> 1],
  [CHUNK_SIZE_CHARS |-> 12, CHUNK_OVERLAP_CHARS |-> 4,
   MAX_CHUNK_TOKENS |-> 6, OVERLAP_TOKENS |-> 2] }

CharArgs == {0, 1, 2, 3, 11, 12}
TokenArgs == {0, 1, 2, 3}

NoArg == [max_tokens |-> 0, overlap_tokens |-> 0, char_size |-> 0, char_overlap |-> 0]


-----------------------------------------------------------------------------
(* Answer synthesizer: src/app/llm.py and the /api/answer route of main.py *)

\* config.py:30, the default of RAG_MAX_CONTEXT_TOKENS
DefaultCtx == 1600
\* main.py:168, `max(200, int(max_ctx))`
MinCtx == 200

\* the threads of the serving layer (sync routes run in a thread pool)
Threads == {1, 2}

Sentinel == "I don't know."

\* the texts of the retrieval hits, by length in characters
ContextSets == { <<>>, <<[id |-> "h1", len |-> 400]>>,
                 <<[id |-> "h1", len |-> 1000], [id |-> "h2", len |-> 6000]>> }

\* an Optional[int]: None, or Some(v)
None == <<>>
Some(v) == <<v>>

\* the max_ctx query parameter
MaxCtxArgs == {None, Some(100), Some(300)}

\* llm.py:87  t = len(enc.encode(ch)) if enc else max(1, int(len(ch) / 4))
cost(ch) ==
  IF tiktoken THEN (ch.len + TokWidth - 1) \div TokWidth
  ELSE Max(1, ch.len \div CharsPerToken)

\* faulty variant: a candidate that does not fit is skipped and packing goes on
RECURSIVE pack_from_Skip(_, _, _, _)
pack_from_Skip(cands, max_tokens, packed, total) ==
  IF cands = <<>> THEN packed
  ELSE LET t == cost(Head(cands)) IN
       IF total + t > max_tokens /\ packed # <<>>
       THEN pack_from_Skip(Tail(cands), max_tokens, packed, total)
       ELSE pack_from_Skip(Tail(cands), max_tokens, Append(packed, Head(cands)), total + t)

\* faulty variant: the first candidate is not forced in
RECURSIVE pack_from_Strict(_, _, _, _)
pack_from_Strict(cands, max_tokens, packed, total) ==
  IF cands = <<>> THEN packed
  ELSE LET t == cost(Head(cands)) IN
       IF total + t > max_tokens
       THEN packed
       ELSE pack_from_Strict(Tail(cands), max_tokens, Append(packed, Head(cands)), total + t)

\* faulty variant: the budget is tested before the candidate's cost is added
RECURSIVE pack_from_Late(_, _, _, _)
pack_from_Late(cands, max_tokens, packed, total) ==
  IF cands = <<>> THEN packed
  ELSE LET t == cost(Head(cands)) IN
       IF total > max_tokens /\ packed # <<>>
       THEN packed
       ELSE pack_from_Late(Tail(cands), max_tokens, Append(packed, Head(cands)), total + t)

\* llm.py:82-92
RECURSIVE pack_from(_, _, _, _)
pack_from(cands, max_tokens, packed, total) ==
  IF cands = <<>> THEN packed
  ELSE LET t == cost(Head(cands)) IN
       IF total + t > max_tokens /\ packed # <<>>
       THEN packed
       ELSE pack_from(Tail(cands), max_tokens, Append(packed, Head(cands)), total + t)

pack_context(cands, max_tokens) == pack_from(cands, max_tokens, <<>>, 0)

\* a thread that serves nothing yet
NoRequest ==
  [kind |-> "none", max_ctx |-> None, sources_only |-> FALSE, contexts |-> <<>>,
   sources |-> <<>>, old |-> None, used |-> None, client |-> FALSE,
   packed |-> <<>>, numbered |-> <<>>,
   afc |-> "idle", llm |-> "none", ans |-> "", rpc |-> "idle"]

\* main.py:154-161: one source per hit, numbered from 1 in hit order, with
\* the text that goes into the context list
Sources(hits) == [x \in 1..Len(hits) |-> [id |-> hits[x].id, index |-> x, text |-> hits[x]]]

\* faulty variant: the context block is numbered from 0
Numbered_FromZero(ctx) == [x \in 1..Len(ctx) |-> [index |-> x - 1, text |-> ctx[x]]]

\* llm.py:103: the lines `[i+1] c` of the context block, for i, c in enumerate(ctx)
Numbered(ctx) == [x \in 1..Len(ctx) |-> [index |-> x, text |-> ctx[x]]]

\* main.py:168
Override(max_ctx) == Max(MinCtx, max_ctx)

\* main.py:151-163: embed the query, search, collect contexts and sources, and
\* return the sources alone when asked to or when answering is switched off; an
\* embedding failure (embeddings.py:6-8 without a key, or the service) leaves
\* the route as an exception
Retrieve(p) ==
  /\ req[p].rpc = "retrieve"
  /\ \/ /\ ~OPENAI_API_KEY
        /\ req' = [req EXCEPT ![p].rpc = "failed"]
     \/ /\ OPENAI_API_KEY
        /\ \E ok \in BOOLEAN, c \in ContextSets :
             req' = [req EXCEPT
                       ![p].contexts = IF ok THEN c ELSE <<>>,
                       ![p].sources = IF ok THEN Sources(c) ELSE <<>>,
                       ![p].rpc = IF ~ok THEN "failed"
                                  ELSE IF req[p].sources_only \/ ~EXPOSE_ASK THEN "returned"
                                  ELSE IF req[p].max_ctx # None THEN "save_old"
                                  ELSE "afc_enter"]
  /\ UNCHANGED <<OPENAI_API_KEY, EXPOSE_ASK, RAG_MAX_CONTEXT_TOKENS, chunkVars, storeVars, fileVars>>

\* main.py:167  old = llm_mod.config.RAG_MAX_CONTEXT_TOKENS
SaveOld(p) ==
  /\ req[p].rpc = "save_old"
  /\ req' = [req EXCEPT ![p].old = Some(RAG_MAX_CONTEXT_TOKENS), ![p].rpc = "set_override"]
  /\ UNCHANGED <<OPENAI_API_KEY, EXPOSE_ASK, RAG_MAX_CONTEXT_TOKENS, chunkVars, storeVars, fileVars>>

\* main.py:168  llm_mod.config.RAG_MAX_CONTEXT_TOKENS = max(200, int(max_ctx))
SetOverride(p) ==
  /\ req[p].rpc = "set_override"
  /\ RAG_MAX_CONTEXT_TOKENS' = Override(req[p].max_ctx[1])
  /\ req' = [req EXCEPT ![p].rpc = "afc_enter"]
  /\ UNCHANGED <<OPENAI_API_KEY, EXPOSE_ASK, chunkVars, storeVars, fileVars>>

\* faulty variant: the client is built before the context is looked at
AfcEnter_ClientFirst(p) ==
  /\ req[p].rpc = "afc_enter"
  /\ IF ~OPENAI_API_KEY
     THEN req' = [req EXCEPT ![p].afc = "raised", ![p].llm = "no_credentials",
                             ![p].rpc = "afc_exit"]
     ELSE \E built \in BOOLEAN :
            req' = [req EXCEPT
                      ![p].afc = IF ~built THEN "raised"
                                 ELSE IF req[p].contexts = <<>> THEN "returned" ELSE "running",
                      ![p].client = built,
                      ![p].ans = IF built /\ req[p].contexts = <<>> THEN Sentinel ELSE @,
                      ![p].llm = IF built THEN "none" ELSE "client_failure",
                      ![p].rpc = IF built /\ req[p].contexts # <<>>
                                 THEN "afc_pack" ELSE "afc_exit"]
  /\ UNCHANGED <<OPENAI_API_KEY, EXPOSE_ASK, RAG_MAX_CONTEXT_TOKENS, chunkVars, storeVars, fileVars>>

\* llm.py:97-99 and get_client, 13-16: the sentinel for an empty context, else
\* the client is built, outside any try block
AfcEnter(p) ==
  /\ req[p].rpc = "afc_enter"
  /\ IF req[p].contexts = <<>>
     THEN req' = [req EXCEPT ![p].afc = "returned", ![p].ans = Sentinel,
                             ![p].rpc = "afc_exit"]
     ELSE IF ~OPENAI_API_KEY
     THEN req' = [req EXCEPT ![p].afc = "raised", ![p].llm = "no_credentials",
                             ![p].rpc = "afc_exit"]
     ELSE \E built \in BOOLEAN :
            req' = [req EXCEPT
                      ![p].afc = IF built THEN "running" ELSE "raised",
                      ![p].client = built,
                      ![p].llm = IF built THEN "none" ELSE "client_failure",
                      ![p].rpc = IF built THEN "afc_pack" ELSE "afc_exit"]
  /\ UNCHANGED <<OPENAI_API_KEY, EXPOSE_ASK, RAG_MAX_CONTEXT_TOKENS, chunkVars, storeVars, fileVars>>

\* llm.py:100-104: the budget is read from the module global and the context
\* is packed and numbered
AfcPack(p) ==
  /\ req[p].rpc = "afc_pack"
  /\ req' = [req EXCEPT ![p].used = Some(RAG_MAX_CONTEXT_TOKENS),
                        ![p].packed = pack_context(req[p].contexts, RAG_MAX_CONTEXT_TOKENS),
                        ![p].numbered =
                          Numbered(pack_context(req[p].contexts, RAG_MAX_CONTEXT_TOKENS)),
                        ![p].rpc = "afc_request"]
  /\ UNCHANGED <<OPENAI_API_KEY, EXPOSE_ASK, RAG_MAX_CONTEXT_TOKENS, chunkVars, storeVars, fileVars>>

\* what the language model's message content is, after .strip()
LlmContents == {"", "X is Y [1]"}

\* llm.py:105-116: the request, inside try/except
AfcRequest(p) ==
  /\ req[p].rpc = "afc_request"
  /\ \E outcome \in {"ok", "request_error", "timeout"}, content \in LlmContents :
       req' = [req EXCEPT ![p].llm = outcome,
                          ![p].afc = "returned",
                          ![p].ans = IF outcome = "ok" THEN content ELSE Sentinel,
                          ![p].rpc = "afc_exit"]
  /\ UNCHANGED <<OPENAI_API_KEY, EXPOSE_ASK, RAG_MAX_CONTEXT_TOKENS, chunkVars, storeVars, fileVars>>

\* answer_from_context is left: a direct caller is done; in the route an
\* exception propagates (the restore of line 170 is skipped), a normal return
\* restores the global when it was overridden (main.py:169-173)
AfcExit(p) ==
  /\ req[p].rpc = "afc_exit"
  /\ IF req[p].afc = "raised"
     THEN /\ req' = [req EXCEPT ![p].rpc = "failed"]
          /\ UNCHANGED RAG_MAX_CONTEXT_TOKENS
     ELSE /\ req' = [req EXCEPT ![p].rpc = "returned"]
          /\ IF req[p].kind = "answer" /\ req[p].max_ctx # None
             THEN RAG_MAX_CONTEXT_TOKENS' = req[p].old[1]
             ELSE UNCHANGED RAG_MAX_CONTEXT_TOKENS
  /\ UNCHANGED <<OPENAI_API_KEY, EXPOSE_ASK, chunkVars, storeVars, fileVars>>

Requests ==
  { [NoRequest EXCEPT !.kind = "answer", !.max_ctx = m, !.sources_only = so,
                      !.rpc = "retrieve"] : m \in MaxCtxArgs, so \in BOOLEAN }
  \cup
  { [NoRequest EXCEPT !.kind = "direct", !.contexts = c, !.rpc = "afc_enter"] :
      c \in ContextSets }

InitAnswer ==
  /\ tiktoken \in BOOLEAN
  /\ OPENAI_API_KEY \in BOOLEAN
  /\ EXPOSE_ASK \in BOOLEAN
  /\ RAG_MAX_CONTEXT_TOKENS = DefaultCtx
  /\ req \in [Threads -> Requests]

\* no answer request is being served (the other specifications)
AnswerIdle ==
  /\ OPENAI_API_KEY = TRUE
  /\ EXPOSE_ASK = TRUE
  /\ RAG_MAX_CONTEXT_TOKENS = DefaultCtx
  /\ req = [p \in Threads |-> NoRequest]

NextAnswer ==
  \E p \in Threads :
    \/ Retrieve(p)
    \/ SaveOld(p)
    \/ SetOverride(p)
    \/ AfcEnter(p)
    \/ AfcPack(p)
    \/ AfcRequest(p)
    \/ AfcExit(p)

(* pack_context called on its own *)

\* most candidates in one call of pack_context
MaxCands == 3

\* lengths in characters of the candidate texts
CandLens == {0, 2, 8, 20, 40}

\* the max_tokens argument
Budgets == {0, 1, 4, 6, 12, 1600}

HitIds == <<"h1", "h2", "h3", "h4", "h5">>

\* the candidate lists: up to MaxCands texts of the lengths above
Candidates ==
  UNION { { [x \in 1..n |-> [id |-> HitIds[x], len |-> f[x]]] : f \in [1..n -> CandLens] } :
          n \in 0..MaxCands }

\* llm.py:82-92, one call pack_context(candidates, max_tokens)
PackContext(p) ==
  /\ req[p].rpc = "pack"
  /\ req' = [req EXCEPT ![p].packed = pack_context(req[p].candidates, req[p].max_tokens),
                        ![p].rpc = "returned"]
  /\ UNCHANGED <<OPENAI_API_KEY, EXPOSE_ASK, RAG_MAX_CONTEXT_TOKENS, chunkVars, storeVars, fileVars>>

PackCalls ==
  { [kind |-> "pack", candidates |-> c, max_tokens |-> b, packed |-> <<>>, rpc |-> "pack"] :
      c \in Candidates, b \in Budgets }

InitPack ==
  /\ tiktoken \in BOOLEAN
  /\ OPENAI_API_KEY = TRUE
  /\ EXPOSE_ASK = TRUE
  /\ RAG_MAX_CONTEXT_TOKENS = DefaultCtx
  /\ \E cl \in PackCalls : req = [p \in Threads |-> IF p = 1 THEN cl ELSE NoRequest]

NextPack == \E p \in Threads : PackContext(p)



-----------------------------------------------------------------------------
(* Vector store: src/app/qdrant_store.py *)

\* largest number of vectors in one upsert call
MaxVecs == 2

\* embeddings.py:30 and :34, embedding_dimension() of the default model
DefaultDim == 3072
\* embeddings.py:32, text-embedding-3-small
SmallDim == 1536

Dims == {SmallDim, DefaultDim}

Callers == {1, 2}

\* vectors of a call: n embeddings of dimension d of the chunks of document doc
MkVectors(doc, d, n) == [x \in 1..n |-> [dim |-> d, tag |-> <<doc, x>>]]
\* payloads of a call (main.py:90): the chunk texts
MkPayloads(doc, m) == [x \in 1..m |-> [text |-> <<doc, x>>]]

\* caller-supplied ids (content hashes): n distinct ids
MkIds(n) == [x \in 1..n |-> <<"hash", x>>]

\* uuid.uuid4(): the n ids after `from` ids were handed out; no two ever equal
Uuid4(from, n) == [x \in 1..n |-> <<"uuid", from + x>>]

\* Python zip(ids, vectors, payloads): as long as the shortest
Zip(ids, vectors, payloads) ==
  [x \in 1..Min(Len(ids), Min(Len(vectors), Len(payloads))) |->
     [id |-> ids[x], vector |-> vectors[x], payload |-> payloads[x]]]

NoCall ==
  [op |-> "none", vectors |-> <<>>, payloads |-> <<>>, ids |-> None, dim |-> None,
   status |-> "idle", ret |-> <<>>, wrote |-> {}, err |-> "", spc |-> "done"]

\* the dimension ensure_collection works with: its dim argument or
\* embedding_dimension() (line 32); upsert_vectors passes the length of the
\* first vector, or embedding_dimension() for no vectors (line 47)
EnsureDim(cl) ==
  IF cl.op = "upsert"
  THEN IF cl.vectors # <<>> THEN cl.vectors[1].dim ELSE DefaultDim
  ELSE IF cl.dim # None THEN cl.dim[1] ELSE DefaultDim

\* the ids of the points of the collection
PointIds == IF collection = None THEN {} ELSE DOMAIN collection[1].points

\* line 46: assert len(vectors) == len(payloads)
AssertLengths(c) ==
  /\ call[c].spc = "assert"
  /\ IF Len(call[c].vectors) = Len(call[c].payloads)
     THEN call' = [call EXCEPT ![c].spc = "check"]
     ELSE call' = [call EXCEPT ![c].status = "raised", ![c].err = "AssertionError",
                               ![c].spc = "done"]
  /\ UNCHANGED <<collection, held, uuids, chunkVars, answerVars, fileVars>>

\* line 33: `collection not in [c.name for c in client.get_collections()...]`;
\* ensure_collection returns when the collection is listed, whatever its size
GetCollections(c) ==
  /\ call[c].spc = "check"
  /\ IF collection = None
     THEN call' = [call EXCEPT ![c].spc = "create"]
     ELSE IF call[c].op = "ensure"
     THEN call' = [call EXCEPT ![c].status = "returned", ![c].spc = "done"]
     ELSE call' = [call EXCEPT ![c].spc = "write"]
  /\ UNCHANGED <<collection, held, uuids, chunkVars, answerVars, fileVars>>

\* lines 34-37: client.create_collection; Qdrant refuses to create a
\* collection that exists by now
CreateCollection(c) ==
  /\ call[c].spc = "create"
  /\ IF collection # None
     THEN /\ call' = [call EXCEPT ![c].status = "raised", ![c].err = "already exists",
                                  ![c].spc = "done"]
          /\ UNCHANGED collection
     ELSE /\ collection' = Some([dim |-> EnsureDim(call[c]), points |-> <<>>])
          /\ IF call[c].op = "ensure"
             THEN call' = [call EXCEPT ![c].status = "returned", ![c].spc = "done"]
             ELSE call' = [call EXCEPT ![c].spc = "write"]
  /\ UNCHANGED <<held, uuids, chunkVars, answerVars, fileVars>>

\* the points of a batch as a function from id to entry, later points
\* overwriting earlier ones with the same id
RECURSIVE AsPoints(_)
AsPoints(pts) ==
  IF pts = <<>> THEN <<>>
  ELSE LET last == pts[Len(pts)] IN
       (last.id :> [vector |-> last.vector, payload |-> last.payload])
         @@ AsPoints(SubSeq(pts, 1, Len(pts) - 1))

\* lines 49-56: ids are generated when none were given, the points are zipped
\* and sent in one client.upsert, and the ids are returned. Qdrant rejects a
\* batch holding a vector of another dimension than the collection's, storing
\* nothing; whether it accepts an empty batch depends on the deployment.
Upsert(c) ==
  /\ call[c].spc = "write"
  /\ LET cl == call[c]
         ids == IF cl.ids = None THEN Uuid4(uuids, Len(cl.vectors)) ELSE cl.ids[1]
         pts == Zip(ids, cl.vectors, cl.payloads)
         bad == \E x \in 1..Len(pts) : pts[x].vector.dim # collection[1].dim
     IN /\ uuids' = IF cl.ids = None THEN uuids + Len(cl.vectors) ELSE uuids
        /\ \E rejected \in (IF pts = <<>> THEN BOOLEAN ELSE {bad}) :
             IF rejected
             THEN /\ call' = [call EXCEPT ![c].status = "raised", ![c].err = "rejected",
                                          ![c].spc = "done"]
                  /\ UNCHANGED collection
             ELSE /\ collection' = Some([collection[1] EXCEPT
                                          !.points = AsPoints(pts) @@ collection[1].points])
                  /\ call' = [call EXCEPT ![c].status = "returned", ![c].ret = ids,
                                          ![c].wrote = { pts[x].id : x \in 1..Len(pts) },
                                          ![c].spc = "done"]
  /\ UNCHANGED <<held, chunkVars, answerVars, fileVars>>

\* the limit argument of a search (main.py:128 `k`)
SearchLimits == {1, 2}

\* the sequences of n distinct elements of S
Arrangements(S, n) ==
  { f \in [1..n -> S] : \A x \in 1..n : \A y \in 1..n : x # y => f[x] # f[y] }

\* lines 59-70: search_similar hands the query to client.search as it is.
\* Qdrant answers a search on a collection that does not exist, or with a
\* query vector of another dimension, with an error; else it returns up to
\* `limit` points (the vectors of the model carry no coordinates: the order
\* of the hits is the store's)
SearchSimilar(c) ==
  /\ call[c].spc = "search"
  /\ IF collection = None
     THEN call' = [call EXCEPT ![c].status = "raised", ![c].err = "not found",
                               ![c].found = Some(0), ![c].spc = "done"]
     ELSE IF collection[1].dim # call[c].dim
     THEN call' = [call EXCEPT ![c].status = "raised", ![c].err = "bad vector",
                               ![c].found = Some(Cardinality(PointIds)), ![c].spc = "done"]
     ELSE \E hits \in Arrangements(PointIds, Min(call[c].limit, Cardinality(PointIds))) :
            call' = [call EXCEPT ![c].status = "returned", ![c].ret = hits,
                                 ![c].found = Some(Cardinality(PointIds)),
                                 ![c].spc = "done"]
  /\ UNCHANGED <<collection, held, uuids, chunkVars, answerVars, fileVars>>

\* search_similar(query_vector, limit) with a query vector of dimension d
SearchCalls ==
  { [op |-> "search", dim |-> d, limit |-> l, status |-> "running", ret |-> <<>>,
     found |-> None, err |-> "", spc |-> "search"] : d \in Dims, l \in SearchLimits }

UpsertCalls(docs, lens, idss) ==
  { [NoCall EXCEPT !.op = "upsert", !.vectors = MkVectors(doc, d, n),
                   !.payloads = MkPayloads(doc, m), !.ids = ids,
                   !.status = "running", !.spc = "assert"] :
      doc \in docs, d \in Dims, n \in 0..MaxVecs, m \in lens, ids \in idss }

EnsureCalls ==
  { [NoCall EXCEPT !.op = "ensure", !.dim = d, !.status = "running", !.spc = "check"] :
      d \in {None} \cup { Some(x) : x \in Dims } }

\* the first caller ranges over every combination of list lengths and ids, or
\* searches (main.py:133); the second is an ingestion (upload, main.py:83-91:
\* ids omitted) or a health check (main.py:38)
FirstCalls ==
  UpsertCalls({"doc1"}, 0..MaxVecs, {None} \cup { Some(MkIds(n)) : n \in 1..(MaxVecs + 1) })
    \cup EnsureCalls \cup SearchCalls
SecondCalls ==
  { cl \in UpsertCalls({"doc1", "doc2"}, 0..MaxVecs, {None}) :
      Len(cl.vectors) = Len(cl.payloads) }
    \cup EnsureCalls

InitialCollections ==
  {None}
  \cup { Some([dim |-> d, points |-> <<>>]) : d \in Dims }
  \cup { Some([dim |-> d,
               points |-> (<<"hash", 1>> :> [vector |-> [dim |-> d, tag |-> <<"doc0", 1>>],
                                   payload |-> [text |-> <<"doc0", 1>>]])]) : d \in Dims }

InitStore ==
  /\ collection \in InitialCollections
  /\ held = IF collection = None THEN <<>> ELSE collection[1].points
  /\ uuids = 0
  /\ call \in { f \in [Callers -> FirstCalls \cup SecondCalls] :
                  f[1] \in FirstCalls /\ f[2] \in SecondCalls }

\* no store call is being made (the other specifications)
StoreIdle ==
  /\ collection = None
  /\ held = <<>>
  /\ uuids = 0
  /\ call = [c \in Callers |-> NoCall]

NextStore ==
  \E c \in Callers :
    \/ AssertLengths(c)
    \/ GetCollections(c)
    \/ CreateCollection(c)
    \/ Upsert(c)
    \/ SearchSimilar(c)

(* scroll_all_by_deck on a collection that nobody writes to meanwhile *)

\* most entries of the scrolled collection
MaxPoints == 4

\* qdrant_store.py:78, the default page size
DefaultPage == 512

PageLimits == {1, 2, 3, DefaultPage}

DeckIds == {"d1", "d2"}

\* the payload of a stored entry: as upload writes it (main.py:90), or
\* without its text field
MkPayload(x, deck_id, has_text) ==
  IF has_text THEN [text |-> <<"doc0", x>>, deck_id |-> deck_id]
  ELSE [deck_id |-> deck_id]

\* the collections to scroll: n entries with ids in ascending order, each
\* belonging to one of the decks, with or without a text in its payload
ScrollCollections ==
  UNION { { Some([dim |-> DefaultDim,
                  points |-> [id \in { <<"hash", x>> : x \in 1..n } |->
                                [vector |-> [dim |-> DefaultDim, tag |-> <<"doc0", id[2]>>],
                                 payload |-> MkPayload(id[2], d[id[2]], w[id[2]])]]]) :
              d \in [1..n -> DeckIds], w \in [1..n -> BOOLEAN] } : n \in 0..MaxPoints }

\* lines 74-75: the ids of the entries whose payload has this deck_id
Matching(deck_id) == { id \in PointIds : collection[1].points[id].payload.deck_id = deck_id }

\* the elements of a set of ids as a list in ascending id order
RECURSIVE Sorted(_)
Sorted(S) ==
  IF S = {} THEN <<>>
  ELSE LET lo == CHOOSE id \in S : \A other \in S : id[2] <= other[2]
       IN <<lo>> \o Sorted(S \ {lo})

\* client.scroll(scroll_filter, limit, offset): Qdrant walks the matching
\* entries in id order from `offset` on (from the start for None), returns
\* the first `limit` of them and, as the cursor, the id of the next one, or
\* None when there is none
Scroll(deck_id, limit, offset) ==
  LET from == Sorted({ id \in Matching(deck_id) : offset = None \/ id[2] >= offset[1][2] })
      m == Min(limit, Len(from))
  IN [page |-> [x \in 1..m |-> [id |-> from[x],
                                 payload |-> collection[1].points[from[x]].payload]],
      cursor |-> IF Len(from) > limit THEN Some(from[limit + 1]) ELSE None]

\* faulty variant: every page is requested from the start
ScrollPage_FromStart(c) ==
  /\ call[c].spc = "scroll"
  /\ LET res == Scroll(call[c].deck_id, call[c].limit, None)
     IN call' = [call EXCEPT
                   ![c].offsets = Append(@, None),
                   ![c].cursors = Append(@, res.cursor),
                   ![c].points = @ \o res.page,
                   ![c].next_page = res.cursor,
                   ![c].status = IF res.cursor = None /\ call[c].op = "scroll"
                                 THEN "returned" ELSE @,
                   ![c].spc = IF res.cursor # None THEN "scroll"
                              ELSE IF call[c].op = "scroll" THEN "done" ELSE "rows"]
  /\ UNCHANGED <<collection, held, uuids, chunkVars, answerVars, fileVars>>

\* lines 83-89, one evaluation of the loop body: a page is requested with the
\* cursor of the page before, its points are added, and the loop ends when the
\* cursor that came back is None
ScrollPage(c) ==
  /\ call[c].spc = "scroll"
  /\ LET res == Scroll(call[c].deck_id, call[c].limit, call[c].next_page)
     IN call' = [call EXCEPT
                   ![c].offsets = Append(@, call[c].next_page),
                   ![c].cursors = Append(@, res.cursor),
                   ![c].points = @ \o res.page,
                   ![c].next_page = res.cursor,
                   ![c].status = IF res.cursor = None /\ call[c].op = "scroll"
                                 THEN "returned" ELSE @,
                   ![c].spc = IF res.cursor # None THEN "scroll"
                              ELSE IF call[c].op = "scroll" THEN "done" ELSE "rows"]
  /\ UNCHANGED <<collection, held, uuids, chunkVars, answerVars, fileVars>>

\* dict.get("text", ""): the text of a payload, "" when it has none
TextOf(payload) == IF "text" \in DOMAIN payload THEN payload.text ELSE ""

\* main.py:192-198 and 206: the route /api/decks/{deck_id}/sources makes one
\* row of every scrolled item and returns them with their number
DeckSources(c) ==
  /\ call[c].spc = "rows"
  /\ LET rows == [x \in 1..Len(call[c].points) |->
                    [id |-> call[c].points[x].id,
                     deck_id |-> call[c].points[x].payload.deck_id,
                     text |-> TextOf(call[c].points[x].payload)]]
     IN call' = [call EXCEPT ![c].ret = [deck_id |-> call[c].deck_id, count |-> Len(rows),
                                         items |-> rows],
                             ![c].status = "returned",
                             ![c].spc = "done"]
  /\ UNCHANGED <<collection, held, uuids, chunkVars, answerVars, fileVars>>

\* scroll_all_by_deck(deck_id, limit=l): lines 79-82, called directly or by
\* the deck sources route (main.py:191, with the default page size); offsets
\* and cursors are history, the offset passed with each request and the cursor
\* it returned
ScrollCalls ==
  { [op |-> o, deck_id |-> "d1", limit |-> l, points |-> <<>>, next_page |-> None,
     offsets |-> <<>>, cursors |-> <<>>, ret |-> <<>>, status |-> "running",
     spc |-> "scroll"] :
      o \in {"scroll"}, l \in PageLimits }
  \cup
  { [op |-> "deck_sources", deck_id |-> "d1", limit |-> DefaultPage, points |-> <<>>,
     next_page |-> None, offsets |-> <<>>, cursors |-> <<>>, ret |-> <<>>,
     status |-> "running", spc |-> "scroll"] }

InitScroll ==
  /\ collection \in ScrollCollections
  /\ held = collection[1].points
  /\ uuids = 0
  /\ \E cl \in ScrollCalls : call = [c \in Callers |-> IF c = 1 THEN cl ELSE NoCall]

NextScroll == \E c \in Callers : ScrollPage(c) \/ DeckSources(c)

-----------------------------------------------------------------------------
(* In-memory index: src/openeducation/rag/retrieval.py *)

\* most entries of an index
MaxEntries == 3

\* the vectors of the entries and of the query: two coordinates, integer norm
IndexVecs == { <<0, 0>>, <<1, 0>>, <<0, 1>>, <<-1, 0>>, <<3, 4>>, <<0, 2>> }
QueryVecs == { <<1, 0>>, <<3, 4>>, <<0, 0>> }

\* the k argument (the slice of line 23 is modelled for a negative k too)
TopKs == {-1, 0, 1, 2, 5}

EntryIds == <<"e1", "e2", "e3", "e4">>

\* build_index (lines 15-16): n ids and an n x 2 matrix
Indexes ==
  UNION { { [ids |-> [x \in 1..n |-> EntryIds[x]], vecs |-> m] : m \in [1..n -> IndexVecs] } :
          n \in 0..MaxEntries }

Dot(u, v) == u[1] * v[1] + u[2] * v[2]

\* np.linalg.norm of a vector of the sets above
Norm(v) == CHOOSE n \in 0..5 : n * n = Dot(v, v)

\* lines 21-22: the cosine similarity of entry vector m and the query, in
\* hundredths (exact for the vectors above); the 1e-9 added to each norm
\* makes the similarity 0 for a zero vector and is otherwise below this
\* resolution
Sim(m, q) ==
  IF Norm(m) = 0 \/ Norm(q) = 0 THEN 0
  ELSE (Dot(m, q) * 100) \div (Norm(m) * Norm(q))

\* faulty variant: the entries are sorted by ascending similarity
Argsort_Ascending(sims) ==
  { f \in Arrangements(DOMAIN sims, Len(sims)) :
      \A x \in 1..(Len(sims) - 1) : sims[f[x]] <= sims[f[x + 1]] }

\* line 23, np.argsort(-sims): the entry numbers by descending similarity;
\* which of two entries with the same similarity comes first is numpy's choice
Argsort(sims) ==
  { f \in Arrangements(DOMAIN sims, Len(sims)) :
      \A x \in 1..(Len(sims) - 1) : sims[f[x]] >= sims[f[x + 1]] }

\* Python order[:k]
SliceTo(order, stop) ==
  SubSeq(order, 1, IF stop >= 0 THEN Min(stop, Len(order)) ELSE Max(0, Len(order) + stop))

\* lines 19-24: search(index, query_vec, k)
RetrievalSearch(c) ==
  /\ call[c].spc = "retrieval.search"
  /\ LET idx == call[c].index
         sims == [x \in 1..Len(idx.ids) |-> Sim(idx.vecs[x], call[c].query_vec)]
     IN \E order \in Argsort(sims) :
          call' = [call EXCEPT
                     ![c].ret = [x \in 1..Len(SliceTo(order, call[c].k)) |->
                                   <<idx.ids[order[x]], sims[order[x]]>>],
                     ![c].status = "returned",
                     ![c].spc = "done"]
  /\ UNCHANGED <<collection, held, uuids, chunkVars, answerVars, fileVars>>

RetrievalCalls ==
  { [op |-> "retrieval.search", index |-> idx, query_vec |-> q, k |-> kk, ret |-> <<>>,
     status |-> "running", spc |-> "retrieval.search"] :
      idx \in Indexes, q \in QueryVecs, kk \in TopKs }

InitRetrieval ==
  /\ collection = None
  /\ held = <<>>
  /\ uuids = 0
  /\ \E cl \in RetrievalCalls : call = [c \in Callers |-> IF c = 1 THEN cl ELSE NoCall]

NextRetrieval == \E c \in Callers : RetrievalSearch(c)

-----------------------------------------------------------------------------
(* Embedding backends: src/openeducation/rag/embeddings.py and              *)
(* src/app/embeddings.py                                                    *)

\* most texts in one embedding call
MaxTexts == 2

\* rag/embeddings.py:23, the dims argument of HashEmbedding
HashDims == 2

\* the input texts as text.lower().split() sees them: lists of tokens; an
\* empty or whitespace-only text has none
TokenLists == { <<>>, <<"a">>, <<"a", "b">>, <<"a", "a", "b">>, <<"a", "c">> }

EmbedInputs == UNION { [1..n -> TokenLists] : n \in 0..MaxTexts }

\* line 29-30: int(sha1(tok + seed)[:8], 16) % dims, as a fixed assignment of
\* tokens to coordinates ("a" and "c" collide)
Bucket(tok) == IF tok = "b" THEN 2 ELSE 1

\* a vector num / sqrt(den2)
Vec(num, den2) == [num |-> num, den2 |-> den2]

\* lines 26-33, HashEmbedding._vec: token counts per coordinate, divided by
\* their norm when it is positive
hash_vec(text) ==
  LET v == [b \in 1..HashDims |-> Cardinality({ x \in 1..Len(text) : Bucket(text[x]) = b })]
  IN IF Dot(v, v) > 0 THEN Vec(v, Dot(v, v)) ELSE Vec(v, 1)

\* lines 35-36, HashEmbedding.embed: np.vstack of the vectors, which raises
\* ValueError for an empty list
HashEmbed(c) ==
  /\ call[c].spc = "hash_embed"
  /\ IF call[c].texts = <<>>
     THEN call' = [call EXCEPT ![c].status = "raised", ![c].err = "ValueError",
                               ![c].spc = "done"]
     ELSE call' = [call EXCEPT ![c].ret = [x \in 1..Len(call[c].texts) |->
                                             hash_vec(call[c].texts[x])],
                               ![c].status = "returned", ![c].spc = "done"]
  /\ UNCHANGED <<collection, held, uuids, chunkVars, answerVars, fileVars>>

\* the vectors the embedding service answers with
ServiceVecs == { <<1, 0>>, <<3, 4>>, <<0, 0>> }

\* lines 45-48, OpenAIEmbedding.embed: the request may fail; the rows of the
\* answer are divided by their norm + 1e-9 (a zero row stays zero; for the
\* other rows the 1e-9 is below the tolerance of the norm); with no rows the
\* array has one axis and the norm along axis 1 raises
OpenAIEmbed(c) ==
  /\ call[c].spc = "openai_embed"
  /\ \/ call' = [call EXCEPT ![c].status = "raised", ![c].err = "service",
                              ![c].spc = "done"]
     \/ /\ call[c].texts = <<>>
        /\ call' = [call EXCEPT ![c].status = "raised", ![c].err = "AxisError",
                                ![c].spc = "done"]
     \/ /\ call[c].texts # <<>>
        /\ \E data \in [1..Len(call[c].texts) -> ServiceVecs] :
             call' = [call EXCEPT
                        ![c].ret = [x \in 1..Len(data) |->
                                      IF Dot(data[x], data[x]) > 0
                                      THEN Vec(data[x], Dot(data[x], data[x]))
                                      ELSE Vec(data[x], 1)],
                        ![c].status = "returned", ![c].spc = "done"]
  /\ UNCHANGED <<collection, held, uuids, chunkVars, answerVars, fileVars>>

\* src/app/embeddings.py:12-23, embed_texts: [] for no texts, else the client
\* is built (lines 6-9, RuntimeError without a key), the request made and the
\* embeddings of the answer returned as they came
EmbedTexts(c) ==
  /\ call[c].spc = "embed_texts"
  /\ IF call[c].texts = <<>>
     THEN call' = [call EXCEPT ![c].status = "returned", ![c].spc = "done"]
     ELSE IF ~OPENAI_API_KEY
     THEN call' = [call EXCEPT ![c].status = "raised", ![c].err = "RuntimeError",
                               ![c].spc = "done"]
     ELSE \/ call' = [call EXCEPT ![c].status = "raised", ![c].err = "service",
                                  ![c].spc = "done"]
          \/ \E data \in [1..Len(call[c].texts) -> ServiceVecs] :
               call' = [call EXCEPT ![c].ret = [x \in 1..Len(data) |-> Vec(data[x], 1)],
                                    ![c].status = "returned", ![c].spc = "done"]
  /\ UNCHANGED <<collection, held, uuids, chunkVars, answerVars, fileVars>>

EmbedCalls ==
  { [op |-> o, texts |-> t, ret |-> <<>>, status |-> "running", err |-> "", spc |-> o] :
      o \in {"hash_embed", "openai_embed", "embed_texts"}, t \in EmbedInputs }

InitEmbed ==
  /\ collection = None
  /\ held = <<>>
  /\ uuids = 0
  /\ \E cl \in EmbedCalls : call = [c \in Callers |-> IF c = 1 THEN cl ELSE NoCall]

NextEmbed == \E c \in Callers : HashEmbed(c) \/ OpenAIEmbed(c) \/ EmbedTexts(c)

-----------------------------------------------------------------------------
(* Cached, retrying completion: src/openeducation/llm/openai_wrapper.py     *)

\* largest retries argument
MaxRetries == 3

\* line 23, the default of the delay argument, in seconds
DefaultDelay == 5

\* lines 25-27: the sha256 of "model-temperature-system-user" names the cache
\* file; two distinct requests
Keys == {"q1", "q2"}

\* line 44: the content of a successful response, "" for none
Responses == {"", "ok"}

\* faulty variant: one more attempt after the last
LastAttempt_OneMore(n, retries) == ~(n < retries)

\* line 52: the attempt with index n is the last one
LastAttempt(n, retries) == ~(n < retries - 1)

\* lines 25-34: the cache file is looked up; a hit returns its response, a miss
\* enters the loop, which has no pass for retries <= 0 (line 59)
CompleteCheckCache(c) ==
  /\ call[c].spc = "cache"
  /\ IF cache[call[c].key] # None
     THEN call' = [call EXCEPT ![c].ret = cache[call[c].key][1], ![c].outcome = "hit",
                               ![c].status = "returned", ![c].spc = "done"]
     ELSE IF call[c].retries <= 0
     THEN call' = [call EXCEPT ![c].ret = "", ![c].outcome = "no attempt",
                               ![c].status = "returned", ![c].spc = "done"]
     ELSE call' = [call EXCEPT ![c].spc = "attempt"]
  /\ UNCHANGED <<collection, held, uuids, chunkVars, answerVars, cache, uploads, decks,
                 catalog, up>>

\* lines 35-58, one pass of the loop: the request succeeds, its content is
\* written to the cache file and returned; or it fails, and the loop sleeps,
\* doubles the delay and goes on, or returns "" after the last attempt
CompleteAttempt(c) ==
  /\ call[c].spc = "attempt"
  /\ \/ \E r \in Responses :
          /\ cache' = [cache EXCEPT ![call[c].key] = Some(r)]
          /\ call' = [call EXCEPT ![c].requests = @ + 1, ![c].ret = r,
                                  ![c].outcome = "success",
                                  ![c].status = "returned", ![c].spc = "done"]
     \/ /\ UNCHANGED cache
        /\ IF LastAttempt(call[c].n, call[c].retries)
           THEN call' = [call EXCEPT ![c].requests = @ + 1, ![c].ret = "",
                                     ![c].outcome = "exhausted",
                                     ![c].status = "returned", ![c].spc = "done"]
           ELSE call' = [call EXCEPT ![c].requests = @ + 1, ![c].n = @ + 1,
                                     ![c].delay = 2 * @]
  /\ UNCHANGED <<collection, held, uuids, chunkVars, answerVars, uploads, decks, catalog, up>>

CompleteCalls ==
  { [op |-> "complete", key |-> key, retries |-> r, delay |-> DefaultDelay, n |-> 0,
     requests |-> 0, ret |-> "", outcome |-> "none", status |-> "running",
     spc |-> "cache"] : key \in Keys, r \in 0..MaxRetries }

\* the cache directory holds the responses of earlier runs
InitWrapper ==
  /\ collection = None
  /\ held = <<>>
  /\ uuids = 0
  /\ cache \in [Keys -> {None, Some("ok")}]
  /\ \E c1 \in CompleteCalls, c2 \in CompleteCalls \cup {NoCall} :
       call = [c \in Callers |-> IF c = 1 THEN c1 ELSE c2]

NextWrapper == \E c \in Callers : CompleteCheckCache(c) \/ CompleteAttempt(c)

-----------------------------------------------------------------------------
(* Chunker: src/app/chunking.py *)

\* a chunk: the string, plus where it came from (text index t, character span
\* [lo, hi) ) and its size in the unit of the loop that cut it
Chunk(t, lo, hi, units) ==
  [str |-> SubSeq(texts[t], lo + 1, hi), t |-> t, lo |-> lo, hi |-> hi, units |-> units]

\* enc.encode(text): number of tokens
NumTokens(text) == (Len(text) + TokWidth - 1) \div TokWidth

\* enc.decode(toks[a:b]) as a character span of the text
TokenSpan(text, a, b) == <<Min(a * TokWidth, Len(text)), Min(b * TokWidth, Len(text))>>

\* faulty variant: the window is one unit too long
WindowEnd_TooLong(start, size, n) == Min(start + size + 1, n)

\* line 51 / line 69: j = min(i + size, n)
WindowEnd(start, size, n) == Min(start + size, n)

\* faulty variant: off by one in the next start
NextStart_OffByOne(j, ov) == Max(0, j - ov + 1)

\* faulty variant: the next window starts after a gap
NextStart_Gap(j, ov) == j + 1

\* line 56 / line 73: i = max(0, j - overlap)
NextStart(j, ov) == Max(0, j - ov)

\* faulty variant: the minimum length is one character higher
RECURSIVE DedupeFrom_HigherMinimum(_, _)
DedupeFrom_HigherMinimum(cs, seen) ==
  IF cs = <<>> THEN <<>>
  ELSE LET ch == Head(cs)
           key == Md5Key(Strip(ch.str))
       IN IF key \notin seen /\ Len(Strip(ch.str)) > MinChunkLen + 1
          THEN <<ch>> \o DedupeFrom_HigherMinimum(Tail(cs), seen \cup {key})
          ELSE DedupeFrom_HigherMinimum(Tail(cs), seen)

\* faulty variant: the keys of kept chunks are not remembered
RECURSIVE DedupeFrom_Forgetful(_, _)
DedupeFrom_Forgetful(cs, seen) ==
  IF cs = <<>> THEN <<>>
  ELSE LET ch == Head(cs)
           key == Md5Key(Strip(ch.str))
       IN IF key \notin seen /\ Len(Strip(ch.str)) > MinChunkLen
          THEN <<ch>> \o DedupeFrom_Forgetful(Tail(cs), seen)
          ELSE DedupeFrom_Forgetful(Tail(cs), seen)

\* lines 81-88 and 111-118: keep a chunk iff its stripped content was not seen
\* before in this call and is longer than the minimum
RECURSIVE DedupeFrom(_, _)
DedupeFrom(cs, seen) ==
  IF cs = <<>> THEN <<>>
  ELSE LET ch == Head(cs)
           key == Md5Key(Strip(ch.str))
       IN IF key \notin seen /\ Len(Strip(ch.str)) > MinChunkLen
          THEN <<ch>> \o DedupeFrom(Tail(cs), seen \cup {key})
          ELSE DedupeFrom(Tail(cs), seen)

Dedupe(cs) == DedupeFrom(cs, {})

\* lines 66-74 as a function: the windows the loop of chunk_text_chars appends
\* from start i on (cut short, like the loop action below, once more windows
\* were cut than the text has characters)
RECURSIVE chars_loop(_, _, _, _, _)
chars_loop(t, size, ov, start, acc) ==
  LET n == Len(texts[t])
      j == Min(start + size, n)
  IN IF start >= n \/ Len(acc) > n THEN acc
     ELSE IF j = n THEN Append(acc, Chunk(t, start, j, j - start))
     ELSE chars_loop(t, size, ov, Max(0, j - ov), Append(acc, Chunk(t, start, j, j - start)))

\* lines 60-74 as a function: chunk_text_chars(texts[t], size, ov)
chunk_text_chars(t, size, ov) ==
  LET cs == OrDefault(size, config.CHUNK_SIZE_CHARS)
      co == OrDefault(ov, config.CHUNK_OVERLAP_CHARS)
      n == Len(texts[t])
  IN IF n <= cs THEN <<Chunk(t, 0, n, n)>> ELSE chars_loop(t, cs, co, 0, <<>>)

\* which branch of chunk_with_overrides runs (lines 97, 102, 107)
Branch ==
  IF entry = "chunk_with_overrides"
  THEN IF arg.max_tokens # 0 \/ arg.overlap_tokens # 0 THEN "tokens"
       ELSE IF arg.char_size # 0 \/ arg.char_overlap # 0 THEN "chars"
       ELSE "auto"
  ELSE IF entry = "chunk_text_chars" THEN "chars"
  ELSE IF entry = "chunk_text_tokens" THEN "tokens"
  ELSE "auto"

\* chunk_text_tokens lines 37-38 (after lines 98-99 for chunk_with_overrides)
TokMax == OrDefault(arg.max_tokens, config.MAX_CHUNK_TOKENS)
TokOverlap == OrDefault(arg.overlap_tokens, config.OVERLAP_TOKENS)

\* faulty variant: the token counts are taken as character counts
CharSize_Unscaled ==
  IF Branch = "chars" THEN OrDefault(arg.char_size, config.CHUNK_SIZE_CHARS)
  ELSE OrDefault(TokMax, config.CHUNK_SIZE_CHARS)

\* chunk_text_chars lines 61-62, called directly (or from line 106) or from the
\* tokenizer-less fallback of chunk_text_tokens (lines 42-44)
CharSize ==
  IF Branch = "chars" THEN OrDefault(arg.char_size, config.CHUNK_SIZE_CHARS)
  ELSE OrDefault(TokMax * CharsPerToken, config.CHUNK_SIZE_CHARS)
CharOverlap ==
  IF Branch = "chars" THEN OrDefault(arg.char_overlap, config.CHUNK_OVERLAP_CHARS)
  ELSE OrDefault(TokOverlap * CharsPerToken, config.CHUNK_OVERLAP_CHARS)

\* the windowing function is entered for texts[k]: parameters are resolved
\* (lines 37-44, 61-62) and chunk_text_chars takes its early return (63-64)
CallWindowing ==
  /\ pc = "call"
  /\ LET text == texts[k]
         chars == Branch = "chars" \/ ~tiktoken
     IN IF chars
        THEN /\ fn' = "chars"
             /\ chunk_size' = CharSize
             /\ overlap' = CharOverlap
             /\ i' = 0
             /\ IF Len(text) <= CharSize
                THEN win' = <<Chunk(k, 0, Len(text), Len(text))>> /\ pc' = "ret"
                ELSE win' = <<>> /\ pc' = "loop"
        ELSE /\ fn' = "tokens"
             /\ chunk_size' = TokMax
             /\ overlap' = TokOverlap
             /\ i' = 0
             /\ win' = <<>>
             /\ pc' = "loop"
  /\ UNCHANGED <<tiktoken, config, entry, texts, arg, k, chunks, out, cut>>
  /\ UNCHANGED <<answerVars, storeVars, fileVars>>

\* one evaluation of the while loop of chunk_text_chars (lines 68-73); the
\* model stops a loop that has cut more windows than the text has characters,
\* which no terminating run does
CharsLoop ==
  /\ pc = "loop" /\ fn = "chars"
  /\ Len(win) <= Len(texts[k])
  /\ LET n == Len(texts[k])
         j == WindowEnd(i, chunk_size, n)
     IN IF i < n
        THEN /\ win' = Append(win, Chunk(k, i, j, j - i))
             /\ IF j = n
                THEN pc' = "ret" /\ i' = i
                ELSE pc' = "loop" /\ i' = NextStart(j, overlap)
        ELSE win' = win /\ pc' = "ret" /\ i' = i
  /\ UNCHANGED <<tiktoken, config, entry, texts, arg, k, fn, chunk_size, overlap,
                 chunks, out, cut>>
  /\ UNCHANGED <<answerVars, storeVars, fileVars>>

\* one evaluation of the while loop of chunk_text_tokens (lines 50-56)
TokensLoop ==
  /\ pc = "loop" /\ fn = "tokens"
  /\ Len(win) <= Len(texts[k])
  /\ LET n == NumTokens(texts[k])
         j == WindowEnd(i, chunk_size, n)
         span == TokenSpan(texts[k], i, j)
     IN IF i < n
        THEN /\ win' = Append(win, Chunk(k, span[1], span[2], j - i))
             /\ IF j = n
                THEN pc' = "ret" /\ i' = i
                ELSE pc' = "loop" /\ i' = NextStart(j, overlap)
        ELSE win' = win /\ pc' = "ret" /\ i' = i
  /\ UNCHANGED <<tiktoken, config, entry, texts, arg, k, fn, chunk_size, overlap,
                 chunks, out, cut>>
  /\ UNCHANGED <<answerVars, storeVars, fileVars>>

\* the windowing function returns to its caller: auto_chunk_text dedupes
\* (lines 80-88); chunk_with_overrides extends its list (101, 106, 109), goes on
\* with the next text and dedupes at the end (110-118)
ReturnWindowing ==
  /\ pc = "ret"
  /\ cut' = cut \o win
  /\ LET piece == IF Branch = "auto" THEN Dedupe(win) ELSE win
     IN IF entry = "chunk_with_overrides"
        THEN /\ chunks' = chunks \o piece
             /\ IF k < Len(texts)
                THEN k' = k + 1 /\ pc' = "call" /\ out' = out
                ELSE k' = k /\ pc' = "done" /\ out' = Dedupe(chunks \o piece)
        ELSE /\ chunks' = chunks
             /\ k' = k
             /\ out' = piece
             /\ pc' = "done"
  /\ UNCHANGED <<tiktoken, config, entry, texts, arg, fn, chunk_size, overlap, i, win>>
  /\ UNCHANGED <<answerVars, storeVars, fileVars>>

\* count_tokens (lines 28-33)
count_tokens(s) ==
  IF tiktoken THEN NumTokens(s) ELSE Max(1, Len(s) \div CharsPerToken)

ChunkArgs ==
  [entry : {"chunk_text_chars"}, max_tokens : {0}, overlap_tokens : {0},
   char_size : CharArgs, char_overlap : CharArgs]
  \cup
  [entry : {"chunk_text_tokens"}, max_tokens : TokenArgs, overlap_tokens : TokenArgs,
   char_size : {0}, char_overlap : {0}]
  \cup
  [entry : {"auto_chunk_text"}, max_tokens : {0}, overlap_tokens : {0},
   char_size : {0}, char_overlap : {0}]
  \cup
  [entry : {"chunk_with_overrides"}, max_tokens : {0, 3}, overlap_tokens : {0, 1},
   char_size : {0, 3, 12}, char_overlap : {0, 4, 12}]

\* spec.md section 8, Scenario B: a 1000-character text, size 300, overlap 50
ScenarioB ==
  [entry |-> "chunk_text_chars", text |-> MkText(2, 1000),
   char_size |-> 300, char_overlap |-> 50]

InitChunk ==
  /\ tiktoken \in BOOLEAN
  /\ config \in ConfigSet
  /\ \/ \E a \in ChunkArgs :
          /\ entry = a.entry
          /\ arg = [max_tokens |-> a.max_tokens, overlap_tokens |-> a.overlap_tokens,
                    char_size |-> a.char_size, char_overlap |-> a.char_overlap]
          /\ texts \in { <<t>> : t \in Texts }
                       \cup (IF a.entry = "chunk_with_overrides"
                             THEN { <<t, u>> : t \in Texts, u \in SecondTexts }
                             ELSE IF a.entry = "auto_chunk_text"
                             THEN { <<t>> : t \in LongTexts }
                             ELSE {})
     \/ /\ entry = ScenarioB.entry
        /\ arg = [NoArg EXCEPT !.char_size = ScenarioB.char_size,
                               !.char_overlap = ScenarioB.char_overlap]
        /\ texts = <<ScenarioB.text>>
  /\ k = 1
  /\ fn = "none"
  /\ chunk_size = 0
  /\ overlap = 0
  /\ i = 0
  /\ win = <<>>
  /\ chunks = <<>>
  /\ out = <<>>
  /\ cut = <<>>
  /\ pc = "call"

\* the chunker is not running (the other specifications)
ChunkIdle ==
  /\ config \in { c \in ConfigSet : c.MAX_CHUNK_TOKENS = 700 }
  /\ entry = "none"
  /\ texts = <<>>
  /\ arg = NoArg
  /\ k = 1
  /\ fn = "none"
  /\ chunk_size = 0
  /\ overlap = 0
  /\ i = 0
  /\ win = <<>>
  /\ chunks = <<>>
  /\ out = <<>>
  /\ cut = <<>>
  /\ pc = "done"

NextChunk == CallWindowing \/ CharsLoop \/ TokensLoop \/ ReturnWindowing

-----------------------------------------------------------------------------
(* Ingestion: src/app/main.py upload, with the chunker, embed_texts,        *)
(* upsert_vectors and the deck catalog (src/app/catalog.py)                 *)

\* most files in one upload
MaxFiles == 2

\* most notes generated for one deck
MaxNotes == 1

\* catalog.py:34, the catalog keeps the last 200 entries
CatalogKeep == 200

\* what extract_text (an external collaborator) makes of an uploaded file: a
\* text, possibly empty, or ValueError for an unsupported suffix (extract.py:24)
FileTexts == { <<>>, MkText(3, 4), MkText(1, 5), MkText(2, 13) }
Files == { [ok |-> TRUE, text |-> t] : t \in FileTexts } \cup { [ok |-> FALSE, text |-> <<>>] }

\* the max_tokens / overlap_tokens / char_size / char_overlap form fields
UploadArgs ==
  { NoArg, [NoArg EXCEPT !.char_overlap = 12],
    [NoArg EXCEPT !.char_size = 12, !.char_overlap = 4],
    [NoArg EXCEPT !.max_tokens = 3, !.overlap_tokens = 1] }

NoUpload ==
  [files |-> <<>>, arg |-> NoArg, f |-> 1, texts |-> <<>>, embeds |-> 0, deck_id |-> None,
   notes |-> 0, collection0 |-> None, catalog0 |-> <<>>, decks0 |-> {}, status |-> "idle", code |-> 0,
   detail |-> "", pos |-> "done"]

\* no upload is being served and no file has been written (the other
\* specifications)
FilesIdle ==
  /\ cache = [key \in Keys |-> None]
  /\ uploads = 0
  /\ decks = {}
  /\ catalog = <<>>
  /\ up = NoUpload

\* raise HTTPException(status_code, detail), or an exception that escapes the
\* handler (status 500)
Fail(code, detail) ==
  [up EXCEPT !.status = "failed", !.code = code, !.detail = detail, !.pos = "done"]

\* catalog.py:34, decks[-200:]
KeepLast(decks_list, n) ==
  IF Len(decks_list) <= n THEN decks_list
  ELSE SubSeq(decks_list, Len(decks_list) - n + 1, Len(decks_list))

\* main.py:54-55
UploadStart ==
  /\ up.pos = "start"
  /\ up' = IF up.files = <<>> THEN Fail(400, "No files uploaded")
           ELSE [up EXCEPT !.pos = "files"]
  /\ UNCHANGED <<chunkVars, answerVars, storeVars, cache, uploads, decks, catalog>>

\* main.py:59-65, one pass of the loop: the file is written to the uploads
\* directory, its text extracted and kept when it is not empty
UploadSaveFile ==
  /\ up.pos = "files"
  /\ up.f <= Len(up.files)
  /\ uploads' = uploads + 1
  /\ up' = IF ~up.files[up.f].ok THEN Fail(500, "ValueError")
           ELSE [up EXCEPT !.f = @ + 1,
                           !.texts = IF up.files[up.f].text # <<>>
                                     THEN Append(@, up.files[up.f].text) ELSE @]
  /\ UNCHANGED <<chunkVars, answerVars, storeVars, cache, decks, catalog>>

\* main.py:67-77: with no text the request fails, else chunk_with_overrides is
\* called with the texts and the form's overrides
UploadCheckTexts ==
  /\ up.pos = "files"
  /\ up.f > Len(up.files)
  /\ IF up.texts = <<>>
     THEN /\ up' = Fail(400, "No text could be extracted")
          /\ UNCHANGED <<entry, texts, arg, k, fn, chunk_size, overlap, i, win, chunks, out,
                         cut, pc>>
     ELSE /\ up' = [up EXCEPT !.pos = "chunk"]
          /\ entry' = "chunk_with_overrides"
          /\ texts' = up.texts
          /\ arg' = up.arg
          /\ k' = 1
          /\ fn' = "none"
          /\ chunk_size' = 0
          /\ overlap' = 0
          /\ i' = 0
          /\ win' = <<>>
          /\ chunks' = <<>>
          /\ out' = <<>>
          /\ cut' = <<>>
          /\ pc' = "call"
  /\ UNCHANGED <<tiktoken, config, answerVars, storeVars, cache, uploads, decks, catalog>>

\* faulty variant: the list of chunks is not looked at
UploadChunked_NoCheck ==
  /\ up.pos = "chunk"
  /\ pc = "done"
  /\ up' = [up EXCEPT !.pos = "embed"]
  /\ UNCHANGED <<chunkVars, answerVars, storeVars, cache, uploads, decks, catalog>>

\* main.py:79-80, once chunk_with_overrides has returned
UploadChunked ==
  /\ up.pos = "chunk"
  /\ pc = "done"
  /\ up' = IF out = <<>> THEN Fail(400, "No chunks produced from text")
           ELSE [up EXCEPT !.pos = "embed"]
  /\ UNCHANGED <<chunkVars, answerVars, storeVars, cache, uploads, decks, catalog>>

\* the upsert_vectors call of main.py:90-91: one vector and one payload per
\* chunk, no ids
UploadUpsertCall(d) ==
  [NoCall EXCEPT !.op = "upsert", !.vectors = MkVectors("upload", d, Len(out)),
                 !.payloads = MkPayloads("upload", Len(out)), !.ids = None,
                 !.status = "running", !.spc = "assert"]

\* main.py:83-91: embed_texts(chunks) (embeddings.py:12-23: no request for no
\* texts, RuntimeError without a key, else one request, whose error or
\* client-side time-out escapes the handler), a uuid for the deck, and the
\* call of upsert_vectors
UploadEmbed ==
  /\ up.pos = "embed"
  /\ IF out # <<>> /\ ~OPENAI_API_KEY
     THEN /\ up' = Fail(500, "RuntimeError")
          /\ UNCHANGED <<uuids, call>>
     ELSE \/ /\ out # <<>>
             /\ up' = [Fail(500, "embedding service") EXCEPT !.embeds = @ + 1]
             /\ UNCHANGED <<uuids, call>>
          \/ \E d \in Dims :
               /\ up' = [up EXCEPT !.embeds = IF out # <<>> THEN @ + 1 ELSE @,
                                   !.deck_id = Some(<<"uuid", uuids + 1>>),
                                   !.pos = "upsert"]
               /\ uuids' = uuids + 1
               /\ call' = [call EXCEPT ![1] = UploadUpsertCall(d)]
  /\ UNCHANGED <<chunkVars, answerVars, collection, held, cache, uploads, decks, catalog>>

\* main.py:91, once upsert_vectors has returned or raised
UploadUpserted ==
  /\ up.pos = "upsert"
  /\ call[1].spc = "done"
  /\ up' = IF call[1].status = "raised" THEN Fail(500, call[1].err)
           ELSE [up EXCEPT !.pos = "notes"]
  /\ UNCHANGED <<chunkVars, answerVars, storeVars, cache, uploads, decks, catalog>>

\* main.py:94-112: the notes are generated (external collaborators; the
\* optional question generation swallows its service errors, llm.py:49-51)
\* and build_deck writes the deck package
UploadBuildDeck ==
  /\ up.pos = "notes"
  /\ \E n \in 0..MaxNotes : up' = [up EXCEPT !.notes = n, !.pos = "catalog"]
  /\ decks' = decks \cup {up.deck_id[1]}
  /\ UNCHANGED <<chunkVars, answerVars, storeVars, cache, uploads, catalog>>

\* main.py:114-115 and catalog.py:24-35: the entry is appended, the last 200
\* entries are written back, and the response is returned
UploadAddDeck ==
  /\ up.pos = "catalog"
  /\ catalog' = KeepLast(Append(catalog, [deck_id |-> up.deck_id[1], notes |-> up.notes]),
                         CatalogKeep)
  /\ up' = [up EXCEPT !.status = "returned", !.code = 200, !.pos = "done"]
  /\ UNCHANGED <<chunkVars, answerVars, storeVars, cache, uploads, decks>>

\* the catalog and decks directory of earlier uploads
InitialCatalogs == { <<>>, <<[deck_id |-> <<"uuid", 0>>, notes |-> 1]>> }

InitUpload ==
  /\ tiktoken \in BOOLEAN
  /\ config \in ConfigSet
  /\ entry = "none"
  /\ texts = <<>>
  /\ arg = NoArg
  /\ k = 1
  /\ fn = "none"
  /\ chunk_size = 0
  /\ overlap = 0
  /\ i = 0
  /\ win = <<>>
  /\ chunks = <<>>
  /\ out = <<>>
  /\ cut = <<>>
  /\ pc = "done"
  /\ OPENAI_API_KEY \in BOOLEAN
  /\ EXPOSE_ASK = TRUE
  /\ RAG_MAX_CONTEXT_TOKENS = DefaultCtx
  /\ req = [p \in Threads |-> NoRequest]
  /\ collection \in InitialCollections
  /\ held = IF collection = None THEN <<>> ELSE collection[1].points
  /\ uuids = 0
  /\ call = [c \in Callers |-> NoCall]
  /\ cache = [key \in Keys |-> None]
  /\ uploads = 0
  /\ catalog \in InitialCatalogs
  /\ decks = { catalog[x].deck_id : x \in 1..Len(catalog) }
  /\ \E fs \in UNION { [1..n -> Files] : n \in 0..MaxFiles }, a \in UploadArgs :
       up = [NoUpload EXCEPT !.files = fs, !.arg = a, !.collection0 = collection,
                             !.catalog0 = catalog, !.decks0 = decks, !.status = "running", !.pos = "start"]

NextUpload ==
  \/ UploadStart
  \/ UploadSaveFile
  \/ UploadCheckTexts
  \/ CallWindowing
  \/ CharsLoop
  \/ TokensLoop
  \/ ReturnWindowing
  \/ UploadChunked
  \/ UploadEmbed
  \/ \E c \in Callers : \/ AssertLengths(c)
                        \/ GetCollections(c)
                        \/ CreateCollection(c)
                        \/ Upsert(c)
  \/ UploadUpserted
  \/ UploadBuildDeck
  \/ UploadAddDeck

-----------------------------------------------------------------------------
(* Specifications *)

\* one call of a chunking entry point
InitChunkSpec == InitChunk /\ AnswerIdle /\ StoreIdle /\ FilesIdle
SpecChunk == InitChunkSpec /\ [][NextChunk]_vars

\* two threads, each serving one /api/answer request or one direct call of
\* answer_from_context, in every interleaving
InitAnswerSpec == InitAnswer /\ ChunkIdle /\ StoreIdle /\ FilesIdle
SpecAnswer == InitAnswerSpec /\ [][NextAnswer]_vars

\* one call of pack_context, for every candidate list and budget
InitPackSpec == InitPack /\ ChunkIdle /\ StoreIdle /\ FilesIdle
SpecPack == InitPackSpec /\ [][NextPack]_vars

\* two callers, each making one ensure_collection, upsert_vectors or search call on
\* the same collection, in every interleaving
InitStoreSpec == InitStore /\ ChunkIdle /\ AnswerIdle /\ tiktoken = FALSE /\ FilesIdle
SpecStore == InitStoreSpec /\ [][NextStore]_vars

\* one scroll_all_by_deck call, for every collection and page size
InitScrollSpec == InitScroll /\ ChunkIdle /\ AnswerIdle /\ tiktoken = FALSE /\ FilesIdle
SpecScroll == InitScrollSpec /\ [][NextScroll]_vars

\* one call of retrieval.search, for every index, query and k
InitRetrievalSpec == InitRetrieval /\ ChunkIdle /\ AnswerIdle /\ tiktoken = FALSE /\ FilesIdle
SpecRetrieval == InitRetrievalSpec /\ [][NextRetrieval]_vars

\* one call of an embedding backend, for every list of texts
InitEmbedSpec ==
  /\ InitEmbed
  /\ ChunkIdle
  /\ tiktoken = FALSE
  /\ OPENAI_API_KEY \in BOOLEAN
  /\ EXPOSE_ASK = TRUE
  /\ RAG_MAX_CONTEXT_TOKENS = DefaultCtx
  /\ req = [p \in Threads |-> NoRequest]
  /\ FilesIdle
SpecEmbed == InitEmbedSpec /\ [][NextEmbed]_vars

\* calls of OpenAIWrapper.complete, each in a thread of its own, over a cache
\* directory left by earlier runs; a thread that can take a step takes it
InitWrapperSpec ==
  /\ InitWrapper
  /\ ChunkIdle
  /\ AnswerIdle
  /\ tiktoken = FALSE
  /\ uploads = 0
  /\ decks = {}
  /\ catalog = <<>>
  /\ up = NoUpload
SpecWrapper == InitWrapperSpec /\ [][NextWrapper]_vars /\ WF_vars(NextWrapper)

\* one upload request from its arrival on
InitUploadSpec == InitUpload
SpecUpload == InitUploadSpec /\ [][NextUpload]_vars

\* the same under the server's scheduling: a handler that can take a step
\* takes it
FairSpecUpload == InitUploadSpec /\ [][NextUpload]_vars /\ WF_vars(NextUpload)

-----------------------------------------------------------------------------
(* Properties of the chunker *)

Range(f) == { f[x] : x \in DOMAIN f }

\* the windows of a list start strictly later one after the other
StartsAdvance(ws) == \A x \in 1..(Len(ws) - 1) : ws[x + 1].lo > ws[x].lo

\* C1: with overlap >= max_size on a text longer than max_size the call is
\* rejected or the overlap clamped: the windowing loop never goes on with a
\* window start that did not advance.
C1_OverlapRejectedOrClamped ==
  (fn # "none" /\ overlap >= chunk_size) => StartsAdvance(win)

\* the list ws is the sliding-window sequence over a text of length n: first
\* start 0, each window [s, min(s + size, n)), next start = end - ov, and the
\* sequence stops with the first window that ends at n
IsSlidingWindows(ws, text, size, ov) ==
  LET n == Len(text) IN
  /\ Len(ws) >= 1
  /\ ws[1].lo = 0
  /\ \A x \in 1..Len(ws) :
       /\ ws[x].hi = Min(ws[x].lo + size, n)
       /\ ws[x].str = SubSeq(text, ws[x].lo + 1, ws[x].hi)
  /\ \A x \in 1..(Len(ws) - 1) :
       /\ ws[x + 1].lo = ws[x].hi - ov
       /\ ws[x].hi < n
       /\ (ws[x].hi - ws[x + 1].lo) = ov
  /\ ws[Len(ws)].hi = n

C8_Pre ==
  /\ entry = "chunk_text_chars"
  /\ texts[1] # <<>>
  /\ arg.char_size > arg.char_overlap
  /\ arg.char_overlap >= 1

\* C8: for a non-empty text and chunk_size > overlap >= 1, chunk_text_chars
\* returns (and does return: its loop is never stuck short of the end) exactly
\* the sliding-window sequence; a text no longer than chunk_size yields the
\* single chunk equal to the text; Scenario B yields 4 chunks ending at 1000.
C8_SlidingWindow ==
  C8_Pre =>
    /\ pc = "loop" => (i < Len(texts[1]) /\ Len(win) <= Len(texts[1]))
    /\ pc = "done" =>
         /\ IsSlidingWindows(out, texts[1], arg.char_size, arg.char_overlap)
         /\ Len(texts[1]) <= arg.char_size => out = <<Chunk(1, 0, Len(texts[1]), Len(texts[1]))>>
         /\ (texts[1] = ScenarioB.text /\ arg.char_size = ScenarioB.char_size
               /\ arg.char_overlap = ScenarioB.char_overlap)
            => (Len(out) = 4 /\ out[4].hi = 1000)

C8_Witness ==
  /\ C8_Pre
  /\ pc = "done"
  /\ texts[1] = ScenarioB.text
  /\ arg.char_size = ScenarioB.char_size
  /\ Len(out) = 4

\* position pos of text t lies inside the span of chunk ch
Covers(ch, t, pos) == ch.t = t /\ ch.lo <= pos /\ pos < ch.hi


PublicEntry == entry \in {"auto_chunk_text", "chunk_with_overrides"}

\* C9 as claimed: the chunks returned by auto_chunk_text and
\* chunk_with_overrides cover every character position of the input.
C9_ReturnedChunksCover ==
  (PublicEntry /\ pc = "done") =>
    \A t \in 1..Len(texts) : \A pos \in 0..(Len(texts[t]) - 1) :
      \E x \in 1..Len(out) : Covers(out[x], t, pos)

\* the dedupe step dropped window w: it is too short after trimming, or its
\* trimmed content is that of a returned chunk
Dropped(w) ==
  \/ Len(Strip(w.str)) <= MinChunkLen
  \/ \E x \in 1..Len(out) : Strip(out[x].str) = Strip(w.str)

\* C9 amended: every character position of the input lies inside a returned
\* chunk, or inside a window that deduplication or the minimum-length filter
\* dropped (trimmed content of at most 10 characters, or equal to the trimmed
\* content of a returned chunk).
C9_CoverUpToDropped ==
  (PublicEntry /\ pc = "done") =>
    \A t \in 1..Len(texts) : \A pos \in 0..(Len(texts[t]) - 1) :
      \/ \E x \in 1..Len(out) : Covers(out[x], t, pos)
      \/ \E x \in 1..Len(cut) : Covers(cut[x], t, pos) /\ Dropped(cut[x])

\* a finished auto_chunk_text call with several windows, one returned and one
\* dropped
C9_Witness ==
  /\ entry = "auto_chunk_text"
  /\ pc = "done"
  /\ Len(cut) >= 2
  /\ Len(out) >= 1
  /\ Len(out) < Len(cut)

\* the size limit that applies to the chunks of this call
WithinLimit(ch) ==
  IF Branch = "chars" THEN Len(ch.str) <= CharSize
  ELSE IF tiktoken THEN NumTokens(ch.str) <= TokMax
  ELSE /\ Len(ch.str) <= CharsPerToken * TokMax
       /\ count_tokens(ch.str) <= TokMax

\* C10: every chunk produced is no larger than the configured maximum:
\* chunk_size characters for chunk_text_chars, max_tokens tokens for
\* chunk_text_tokens with a tokenizer, 4 * max_tokens characters (estimated
\* token count <= max_tokens) without one.
C10_ChunkWithinMaximum ==
  \A ch \in Range(win) \cup Range(chunks) \cup Range(out) : WithinLimit(ch)

\* a window cut in the middle of a longer text that is exactly as large as the
\* maximum, in a call that went on to finish
C10_Witness ==
  /\ pc = "done"
  /\ entry = "chunk_text_tokens"
  /\ Len(out) >= 3
  /\ \E x \in 1..Len(out) : out[x].units = chunk_size

\* the indices of the windows of ws that pass the filter: trimmed content
\* longer than the minimum and not the trimmed content of an earlier window
KeptIdx(ws) ==
  { x \in 1..Len(ws) :
      /\ Len(Strip(ws[x].str)) > MinChunkLen
      /\ \A y \in 1..(x - 1) : Strip(ws[y].str) # Strip(ws[x].str) }

\* the j-th smallest element of the set S of numbers
NthOf(S, j) == CHOOSE x \in S : Cardinality({ y \in S : y <= x }) = j

\* res is ws restricted to the indices that pass the filter, in the order of ws
IsFiltered(res, ws) ==
  /\ Len(res) = Cardinality(KeptIdx(ws))
  /\ \A j \in 1..Len(res) : res[j] = ws[NthOf(KeptIdx(ws), j)]

C21_Pre ==
  /\ entry = "chunk_text_tokens"
  /\ ~tiktoken
  /\ arg.max_tokens > 0
  /\ arg.overlap_tokens > 0

\* C21: without a tokenizer chunk_text_tokens(text, max_tokens, overlap_tokens)
\* does not raise for that reason and returns exactly
\* chunk_text_chars(text, 4 * max_tokens, 4 * overlap_tokens), for every text
\* and all positive max_tokens and overlap_tokens: it runs the character loop
\* with these sizes and its result is that of the character function.
C21_FallbackIsCharChunking ==
  C21_Pre =>
    /\ fn # "none" =>
         /\ fn = "chars"
         /\ chunk_size = 4 * arg.max_tokens
         /\ overlap = 4 * arg.overlap_tokens
    /\ pc = "done" =>
         out = chunk_text_chars(1, 4 * arg.max_tokens, 4 * arg.overlap_tokens)

\* a tokenizer-less chunk_text_tokens call has returned several windows
C21_Witness ==
  /\ C21_Pre
  /\ pc = "done"
  /\ Len(out) >= 3

\* C27 as claimed: auto_chunk_text returns a non-empty list of chunks for
\* every input text whose whitespace-trimmed length exceeds the 10-character minimum.
C27_ContentGivesChunks ==
  (entry = "auto_chunk_text" /\ pc = "done" /\ Len(Strip(texts[1])) > MinChunkLen)
    => out # <<>>

\* C27 amended: auto_chunk_text returns a non-empty list exactly when one of
\* the windows it cuts has a whitespace-trimmed length above 10 characters;
\* so it does for every text that fits one window and whose trimmed length
\* exceeds 10.
C27_WindowWithContentGivesChunks ==
  (entry = "auto_chunk_text" /\ pc = "done") =>
    /\ out # <<>> <=> \E x \in 1..Len(cut) : Len(Strip(cut[x].str)) > MinChunkLen
    /\ (Len(cut) = 1 /\ Len(Strip(texts[1])) > MinChunkLen) => out # <<>>

\* a finished auto_chunk_text call on a text with content, cut into several
\* windows of which exactly one was long enough
C27_Witness ==
  /\ entry = "auto_chunk_text"
  /\ pc = "done"
  /\ Len(Strip(texts[1])) > MinChunkLen
  /\ Len(cut) >= 2
  /\ Len(out) = 1
  /\ Cardinality({ x \in 1..Len(cut) : Len(Strip(cut[x].str)) > MinChunkLen }) = 1

\* C28: chunk_with_overrides terminates for every list of texts and every
\* combination of positive override values, also when only a size or only an
\* overlap is supplied: its windowing loop, whose next start depends on the
\* current start alone, never comes back to a start it had before.
C28_OverridesLoopAdvances ==
  entry = "chunk_with_overrides" =>
    \A x \in 1..Len(win) : \A y \in 1..Len(win) : x # y => win[x].lo # win[y].lo

\* C20: chunking an empty text yields an empty sequence from every entry
\* point: chunk_text_chars, chunk_text_tokens (with and without a tokenizer),
\* auto_chunk_text and chunk_with_overrides.
C20_EmptyTextGivesEmpty ==
  (pc = "done" /\ texts = << <<>> >>) => out = <<>>

-----------------------------------------------------------------------------
(* Properties of the answer synthesizer *)

\* C2: answer_from_context never lets an exception escape: it returns a string,
\* and the string is the sentinel whenever the external call did not succeed
\* (missing credentials, client construction failure, request error, timeout).
C2_NoExceptionEscapes ==
  \A p \in Threads :
    /\ req[p].afc # "raised"
    /\ (req[p].afc = "returned" /\ req[p].llm # "ok") => req[p].ans = Sentinel

\* the context budget a request is entitled to: its own max_ctx (clamped as
\* line 168 does) or the configured default
OwnBudget(r) == IF r.max_ctx = None THEN DefaultCtx ELSE Override(r.max_ctx[1])

\* C3: the budget with which a request packs its context is determined only by
\* that request's own max_ctx parameter and the configured default, in every
\* interleaving and whatever happened to earlier requests.
C3_BudgetIsOwn ==
  \A p \in Threads : req[p].used # None => req[p].used = Some(OwnBudget(req[p]))

\* the request has an empty context bundle: the retrieval of an /api/answer
\* request returned no hits, or answer_from_context was called with no chunks
EmptyBundle(r) ==
  /\ r.kind \in {"answer", "direct"}
  /\ r.contexts = <<>>
  /\ r.rpc \notin {"idle", "retrieve", "failed"}

\* the route synthesizes an answer for the request (main.py:162)
Synthesizes(r) == r.kind = "direct" \/ (~r.sources_only /\ EXPOSE_ASK)

\* C15: with an empty context bundle answering returns exactly the sentinel
\* "I don't know." and an empty source list, and no language-model client is
\* created and no language-model request is issued (nor does the call fail).
C15_EmptyBundleGivesSentinel ==
  \A p \in Threads : EmptyBundle(req[p]) =>
    /\ ~req[p].client
    /\ req[p].llm = "none"
    /\ req[p].afc # "raised"
    /\ req[p].sources = <<>>
    /\ (req[p].rpc = "returned" /\ Synthesizes(req[p])) => req[p].ans = Sentinel

\* an /api/answer request whose retrieval found nothing has returned the
\* sentinel
C15_Witness ==
  \E p \in Threads :
    /\ req[p].kind = "answer"
    /\ EmptyBundle(req[p])
    /\ Synthesizes(req[p])
    /\ req[p].rpc = "returned"
    /\ req[p].afc = "returned"
    /\ req[p].ans = Sentinel

C22_SuppliedBudgetIsUsed ==
  \A p \in Threads :
    (/\ req[p].kind = "answer"
     /\ req[p].max_ctx # None
     /\ req[p].used # None) => req[p].used = req[p].max_ctx

\* summed cost of a list of candidates
RECURSIVE SumCost(_)
SumCost(cs) == IF cs = <<>> THEN 0 ELSE cost(Head(cs)) + SumCost(Tail(cs))

\* a finished call of pack_context
Packed(r) == r.kind = "pack" /\ r.rpc = "returned"

\* the lengths of the prefixes of cands whose cumulative cost is within b
FittingPrefixes(cands, b) ==
  { m \in 0..Len(cands) : SumCost(SubSeq(cands, 1, m)) <= b }

SetMax(S) == CHOOSE x \in S : \A y \in S : y <= x

\* C12: pack_context returns a prefix of the candidates in their order: the
\* longest prefix whose cumulative cost is within the budget, or the
\* one-element prefix when the first candidate alone exceeds the budget; a
\* later, smaller candidate is never included after one that did not fit.
C12_PackIsGreedyPrefix ==
  \A p \in Threads : Packed(req[p]) =>
    LET cands == req[p].candidates
        b == req[p].max_tokens
        m == Len(req[p].packed)
    IN /\ m <= Len(cands)
       /\ req[p].packed = SubSeq(cands, 1, m)
       /\ IF cands = <<>> THEN m = 0
          ELSE IF cost(cands[1]) > b THEN m = 1
          ELSE m = SetMax(FittingPrefixes(cands, b))

\* packing stopped at a candidate that did not fit although a later, smaller
\* one would have
C12_Witness ==
  \E p \in Threads :
    /\ Packed(req[p])
    /\ Len(req[p].packed) >= 1
    /\ SumCost(req[p].packed) <= req[p].max_tokens
    /\ \E j \in (Len(req[p].packed) + 2)..Len(req[p].candidates) :
         SumCost(req[p].packed) + cost(req[p].candidates[j]) <= req[p].max_tokens

\* C13: for a non-empty candidate list and a nonzero budget the result of
\* pack_context contains at least the first candidate, even if its cost alone
\* exceeds the budget.
C13_FirstCandidateAlwaysPacked ==
  \A p \in Threads :
    (Packed(req[p]) /\ req[p].candidates # <<>> /\ req[p].max_tokens # 0) =>
      /\ Len(req[p].packed) >= 1
      /\ req[p].packed[1] = req[p].candidates[1]

\* a first candidate dearer than the nonzero budget was packed
C13_Witness ==
  \E p \in Threads :
    /\ Packed(req[p])
    /\ req[p].candidates # <<>>
    /\ req[p].max_tokens # 0
    /\ cost(req[p].candidates[1]) > req[p].max_tokens
    /\ req[p].packed = <<req[p].candidates[1]>>

\* C14: whenever pack_context returns more than one candidate their summed
\* cost is within the budget; the budget is exceeded only by a result that
\* consists of the first candidate alone.
C14_BudgetHeldBeyondFirst ==
  \A p \in Threads : Packed(req[p]) =>
    /\ Len(req[p].packed) > 1 => SumCost(req[p].packed) <= req[p].max_tokens
    /\ SumCost(req[p].packed) > req[p].max_tokens
         => req[p].packed = SubSeq(req[p].candidates, 1, 1)

\* several candidates were packed and the next one was left out
C14_Witness ==
  \E p \in Threads :
    /\ Packed(req[p])
    /\ Len(req[p].packed) >= 2
    /\ Len(req[p].packed) < Len(req[p].candidates)

-----------------------------------------------------------------------------
(* Properties of the vector store *)

\* the call is an ingestion as upload makes it (main.py:83-91): one payload
\* per vector, at least one chunk, ids left to the store
IsIngestion(cl) ==
  /\ cl.op = "upsert"
  /\ cl.ids = None
  /\ Len(cl.vectors) = Len(cl.payloads)
  /\ cl.vectors # <<>>

\* every chunk of the call is the text of an entry of the collection already
ContentStored(cl) ==
  /\ collection # None
  /\ \A x \in 1..Len(cl.payloads) :
       \E id \in PointIds : collection[1].points[id].payload.text = cl.payloads[x].text

\* C4: ingesting content that an earlier ingestion stored leaves the number of
\* distinct entries of the collection as it was: the write of the second
\* ingestion adds no entry.
C4_ReingestKeepsCount ==
  [][\A c \in Callers :
       (/\ IsIngestion(call[c])
        /\ call[c].spc = "write"
        /\ call'[c].status = "returned"
        /\ ContentStored(call[c]))
       => Cardinality(PointIds') = Cardinality(PointIds)]_vars

\* C5: an upsert_vectors call never applies partially: a call that returns has
\* stored one entry per supplied vector and returns that many ids, whatever
\* the lengths of the lists; a call that fails has stored nothing.
C5_UpsertAllOrNothing ==
  \A c \in Callers :
    (call[c].op = "upsert" /\ call[c].spc = "done") =>
      /\ call[c].status = "returned" =>
           /\ Cardinality(call[c].wrote) = Len(call[c].vectors)
           /\ Len(call[c].ret) = Len(call[c].vectors)
      /\ call[c].status = "raised" => call[c].wrote = {}

\* C6: ensure_collection returns normally only when the existing collection
\* has the requested dimension; for another dimension it fails with an error.
C6_DimensionMismatchFails ==
  \A c \in Callers :
    (call[c].op = "ensure" /\ call[c].status = "returned") =>
      (collection # None /\ collection[1].dim = EnsureDim(call[c]))

\* two ingestions of vectors of the dimension of the collection (if there is
\* one already)
TwoCompatibleIngestions ==
  /\ \A c \in Callers : IsIngestion(call[c])
  /\ EnsureDim(call[1]) = EnsureDim(call[2])
  /\ collection # None => collection[1].dim = EnsureDim(call[1])

\* C7: two concurrent upsert_vectors calls with store-generated ids on the
\* same collection, existing or not, both complete without error, and
\* afterwards the collection holds every entry of both and all it held before.
C7_ConcurrentUpsertsSafe ==
  TwoCompatibleIngestions =>
    /\ \A c \in Callers : call[c].status # "raised"
    /\ (\A c \in Callers : call[c].spc = "done") =>
         /\ \A c \in Callers :
              /\ Cardinality(call[c].wrote) = Len(call[c].vectors)
              /\ call[c].wrote \subseteq PointIds
         /\ call[1].wrote \cap call[2].wrote = {}
         /\ \A id \in DOMAIN held :
              id \in PointIds /\ collection[1].points[id] = held[id]

\* the ids of a list of points
IdsOf(pts) == { pts[x].id : x \in 1..Len(pts) }

\* C17: scroll_all_by_deck returns every entry of the collection that matches
\* the deck filter exactly once, whatever their number and the page size
\* (>= 1): each page is requested with the cursor the page before returned,
\* and the loop ends exactly when the store returns no further cursor (after
\* no more than floor(n / limit) + 1 pages for n matching entries).
C17_ScrollReturnsAllOnce ==
  \A c \in Callers : call[c].op = "scroll" =>
    LET cl == call[c]
        pages == Len(cl.cursors)
    IN /\ \A x \in 1..Len(cl.points) : \A y \in 1..Len(cl.points) :
            x # y => cl.points[x].id # cl.points[y].id
       /\ IdsOf(cl.points) \subseteq Matching(cl.deck_id)
       /\ Len(cl.offsets) = pages
       /\ \A x \in 1..pages :
            cl.offsets[x] = IF x = 1 THEN None ELSE cl.cursors[x - 1]
       /\ \A x \in 1..(pages - 1) : cl.cursors[x] # None
       /\ pages >= 1 => (cl.spc = "done" <=> cl.cursors[pages] = None)
       /\ pages = 0 => cl.spc = "scroll"
       /\ pages <= (Cardinality(Matching(cl.deck_id)) \div cl.limit) + 1
       /\ cl.spc = "done" =>
            /\ cl.status = "returned"
            /\ IdsOf(cl.points) = Matching(cl.deck_id)
            /\ Len(cl.points) = Cardinality(Matching(cl.deck_id))

\* a scroll that took three pages or more over a collection that also holds
\* entries of another deck has returned
C17_Witness ==
  \E c \in Callers :
    /\ call[c].op = "scroll"
    /\ call[c].spc = "done"
    /\ Len(call[c].cursors) >= 3
    /\ Len(call[c].points) >= 3
    /\ Matching(call[c].deck_id) # PointIds

\* the matching entries of the collection whose payload has a text
WellFormed(deck_id) ==
  { id \in Matching(deck_id) : "text" \in DOMAIN collection[1].points[id].payload }

\* C23: a stored record with a malformed payload (no text field) read by the
\* deck-source scan is skipped: it is not among the returned items, the
\* remaining records are all returned, and the returned count is theirs.
C23_MalformedRecordsSkipped ==
  \A c \in Callers :
    (call[c].op = "deck_sources" /\ call[c].spc = "done") =>
      /\ call[c].status = "returned"
      /\ { call[c].ret.items[x].id : x \in 1..Len(call[c].ret.items) }
           = WellFormed(call[c].deck_id)
      /\ call[c].ret.count = Cardinality(WellFormed(call[c].deck_id))

\* the entries of the index of call cl that its result names
Returned(cl) ==
  { e \in 1..Len(cl.index.ids) : \E x \in 1..Len(cl.ret) : cl.ret[x][1] = cl.index.ids[e] }

\* C18: search returns at most k results ordered by non-increasing
\* similarity, and no entry left out scores strictly higher than a returned
\* one; for an index of n entries and k >= 0 it returns exactly min(k, n)
\* (id, score) pairs, each the id of an entry with that entry's similarity.
C18_SearchReturnsTopK ==
  \A c \in Callers :
    (call[c].op = "retrieval.search" /\ call[c].spc = "done" /\ call[c].k >= 0) =>
      LET cl == call[c]
          n == Len(cl.index.ids)
      IN /\ Len(cl.ret) = Min(cl.k, n)
         /\ Cardinality(Returned(cl)) = Len(cl.ret)
         /\ \A x \in 1..Len(cl.ret) :
              \E e \in 1..n : cl.ret[x] = <<cl.index.ids[e], Sim(cl.index.vecs[e], cl.query_vec)>>
         /\ \A x \in 1..(Len(cl.ret) - 1) : cl.ret[x][2] >= cl.ret[x + 1][2]
         /\ \A e \in (1..n) \ Returned(cl) : \A x \in 1..Len(cl.ret) :
              Sim(cl.index.vecs[e], cl.query_vec) <= cl.ret[x][2]

\* a search with k = 2 over three entries of three different similarities
\* has returned the two best
C18_Witness ==
  \E c \in Callers :
    /\ call[c].op = "retrieval.search"
    /\ call[c].spc = "done"
    /\ call[c].k = 2
    /\ Len(call[c].index.ids) = 3
    /\ Len(call[c].ret) = 2
    /\ call[c].ret[1][2] > call[c].ret[2][2]
    /\ \E e \in 1..3 : Sim(call[c].index.vecs[e], call[c].query_vec) < call[c].ret[2][2]

\* the call searched a collection without entries (existing or not yet
\* created) with a query vector the collection accepts
SearchedEmpty(cl) ==
  /\ cl.op = "search"
  /\ cl.spc = "done"
  /\ cl.found = Some(0)
  /\ cl.err # "bad vector"

\* C19: a search on a collection that holds no entries, including one to
\* which nothing has been written yet, returns an empty result list and does
\* not raise an error.
C19_SearchOnEmptyReturnsEmpty ==
  \A c \in Callers : SearchedEmpty(call[c]) =>
    (call[c].status = "returned" /\ call[c].ret = <<>>)

\* C25: HashEmbedding.embed never fails: for every sequence of texts, the
\* empty sequence and empty or whitespace-only texts included, it returns one
\* vector of the configured dimension per input text, in input order.
C25_HashEmbedNeverFails ==
  \A c \in Callers :
    (call[c].op = "hash_embed" /\ call[c].spc = "done") =>
      /\ call[c].status = "returned"
      /\ Len(call[c].ret) = Len(call[c].texts)
      /\ \A x \in 1..Len(call[c].ret) :
           /\ Len(call[c].ret[x].num) = HashDims
           /\ call[c].ret[x] = hash_vec(call[c].texts[x])

\* the vector has L2 norm 1
IsUnit(v) == Dot(v.num, v.num) = v.den2

\* the vector is the zero vector, not divided
IsPlainZero(v) == Dot(v.num, v.num) = 0 /\ v.den2 = 1

\* C26: every vector returned by an embedding backend (HashEmbedding.embed,
\* OpenAIEmbedding.embed, embed_texts) has unit L2 norm, except that an
\* all-zero vector is returned unchanged as zero.
C26_ReturnedVectorsUnit ==
  \A c \in Callers :
    (call[c].op \in {"hash_embed", "openai_embed", "embed_texts"}
       /\ call[c].status = "returned") =>
      \A x \in 1..Len(call[c].ret) : IsUnit(call[c].ret[x]) \/ IsPlainZero(call[c].ret[x])

\* C29: OpenAIWrapper.complete is a bounded retry with a response cache: a
\* call makes at most `retries` requests and none when the response is cached;
\* it returns the first successful response after writing it to the cache;
\* after the last failed attempt it returns "" without raising and without
\* writing a cache entry; and every call returns.
C29_BoundedRetryWithCache ==
  /\ [](\A c \in Callers :
         call[c].op = "complete" =>
           /\ call[c].requests <= Max(call[c].retries, 0)
           /\ call[c].outcome = "hit" => call[c].requests = 0
           /\ call[c].spc = "done" => call[c].status = "returned"
           /\ call[c].outcome \in {"exhausted", "no attempt"} => call[c].ret = ""
           /\ call[c].outcome = "exhausted" => call[c].requests = call[c].retries)
  /\ [][\A c \in Callers :
          (call[c].op = "complete" /\ call'[c] # call[c]) =>
            /\ (call[c].spc = "cache" /\ cache[call[c].key] # None) =>
                 /\ call'[c].spc = "done"
                 /\ call'[c].ret = cache[call[c].key][1]
                 /\ call'[c].requests = 0
            /\ IF call'[c].outcome = "success"
               THEN /\ cache' = [cache EXCEPT ![call[c].key] = Some(call'[c].ret)]
                    /\ call'[c].spc = "done"
                    /\ call'[c].requests = call[c].requests + 1
               ELSE cache' = cache]_vars
  /\ <>(\A c \in Callers : call[c].spc = "done")

\* a call has used all its attempts and another was answered from the cache
C29_Witness ==
  \E c \in Callers : \E e \in Callers :
    /\ call[c].op = "complete" /\ call[c].outcome = "exhausted"
    /\ call[c].requests = MaxRetries
    /\ call[e].op = "complete" /\ call[e].outcome = "hit"

\* the upload has failed because no text was extracted or no chunk produced
NothingToIngest ==
  /\ up.status = "failed"
  /\ up.code = 400
  /\ up.detail \in {"No text could be extracted", "No chunks produced from text"}

\* C30: an upload that yields no extractable text or no chunks fails with a
\* 400 error before any embedding request, upsert, deck-package write or
\* catalog write: the collection and the catalog are as they were.
C30_NothingToIngestWritesNothing ==
  /\ (up.files # <<>> /\ up.pos \notin {"start", "files"} /\ up.texts = <<>>
        /\ \A x \in 1..Len(up.files) : up.files[x].ok) => NothingToIngest
  /\ (entry = "chunk_with_overrides" /\ pc = "done" /\ out = <<>> /\ up.pos # "chunk")
       => NothingToIngest
  /\ NothingToIngest =>
       /\ up.embeds = 0
       /\ call[1] = NoCall
       /\ collection = up.collection0
       /\ decks = up.decks0
       /\ catalog = up.catalog0
       /\ up.deck_id = None

\* an upload of a text too short for a chunk has failed, with a collection and
\* a catalog that held entries
C30_Witness ==
  /\ NothingToIngest
  /\ up.detail = "No chunks produced from text"
  /\ catalog # <<>>
  /\ collection # None
  /\ held # <<>>

====
